---- MODULE Spec2Model ----
(***************************************************************************)
(* Piribot: the Telegram handlers of src/bot/telegram_bot.py, the reply    *)
(* post-processing of src/bot/gemini_client.py, the static messages of     *)
(* src/bot/language.py and the settings of src/config/settings.py.         *)
(*                                                                         *)
(* A text (a Python str) is a sequence of tokens; a token is a fragment of *)
(* a string (a word, a blank, a line break).  Substring tests, strip() and *)
(* lower() are computed on these sequences.                                *)
(***************************************************************************)
EXTENDS Naturals, Sequences, FiniteSets, TLC

VARIABLES
    environ,       \* os.environ: PIRIBOT_DEFAULT_LANGUAGE, as the process was started
    settings,      \* config.settings.settings (load_settings() at import)
    alerts_config, \* bot.telegram_bot._ALERTS_CONFIG (data/alerts.json at import)
    faq_data,      \* bot.gemini_client._FAQ_DATA (data/faq.json at import)
    user_data,     \* context.user_data of every user (python-telegram-bot)
    tasks,         \* the handler coroutines in flight, each suspended at an await
    outbox,        \* per user: what reply_text was called with for the user's latest update
    alerts_sent,   \* per user: how many times line 258 sent the standalone warning
    risk_prompts,  \* (ghost) per user: how many prompts were built with alert_hint=True
    appended,      \* (ghost) per user: every turn lines 271-272 appended, in order
    env,           \* what the outside world may do: who writes, what, what Gemini answers
    budget,        \* how many more updates the transport will deliver
    probe          \* the latest direct call of a pure function: its arguments and result

vars == <<environ, settings, alerts_config, faq_data, user_data, tasks, outbox, alerts_sent,
          risk_prompts, appended, env,
          budget, probe>>

(***************************************************************************)
(* Bounds of the model.                                                    *)
(***************************************************************************)
MaxUpdates == 3
MaxCapUpdates == 6
MaxLen == 3

(***************************************************************************)
(* Texts.                                                                  *)
(***************************************************************************)
Blank == " "
NewLine == "\n"
Whitespace == {Blank, NewLine}

RECURSIVE lstrip(_)
lstrip(t) ==
    IF t # <<>> /\ Head(t) \in Whitespace THEN lstrip(Tail(t)) ELSE t

RECURSIVE rstrip(_)
rstrip(t) ==
    IF t # <<>> /\ t[Len(t)] \in Whitespace
    THEN rstrip(SubSeq(t, 1, Len(t) - 1))
    ELSE t

\* str.strip()
strip(t) == rstrip(lstrip(t))

\* The upper-case tokens of the model and their lower-case forms.
LowerOf ==
    [c \in {"FIEBRE", "Fiebre", "Tengo", "Yawar"} |->
        CASE c = "FIEBRE" -> "fiebre"
          [] c = "Fiebre" -> "fiebre"
          [] c = "Tengo" -> "tengo"
          [] c = "Yawar" -> "yawar"]

\* str.lower()
lower(t) ==
    [i \in 1..Len(t) |-> IF t[i] \in DOMAIN LowerOf THEN LowerOf[t[i]] ELSE t[i]]

\* The positions at which sub occurs in t.
Occurrences(sub, t) ==
    {i \in 1..(Len(t) + 1) :
        /\ i + Len(sub) - 1 <= Len(t)
        /\ SubSeq(t, i, i + Len(sub) - 1) = sub}

\* Python's `sub in t`
Contains(sub, t) == Occurrences(sub, t) # {}

\* str.endswith
EndsWith(t, suffix) ==
    /\ Len(suffix) <= Len(t)
    /\ SubSeq(t, Len(t) - Len(suffix) + 1, Len(t)) = suffix

(***************************************************************************)
(* Optional[str]: None, or a str.                                          *)
(***************************************************************************)
None == [some |-> FALSE, text |-> <<>>]
Some(t) == [some |-> TRUE, text |-> t]
\* Python truthiness of an Optional[str]: None and "" are falsy.
Truthy(o) == o.some /\ o.text # <<>>

(***************************************************************************)
(* config/settings.py                                                      *)
(***************************************************************************)
LanguageCode == {"es", "qu", "shp"}

\* os.getenv("PIRIBOT_DEFAULT_LANGUAGE", "es"): unset, or any string.
EnvUnset == [some |-> FALSE, text |-> ""]
EnvValues ==
    {EnvUnset} \cup {[some |-> TRUE, text |-> v] : v \in {"es", "qu", "QU", "shp", "fr", ""}}

\* str.lower() of an environment value
EnvLower(v) == IF v = "QU" THEN "qu" ELSE v

load_settings(raw) ==
    LET default_language == EnvLower(IF raw.some THEN raw.text ELSE "es")
    IN  [default_language |->
            IF default_language \notin {"es", "qu", "shp"} THEN "es" ELSE default_language]

(***************************************************************************)
(* bot/language.py                                                         *)
(***************************************************************************)
LANG_LABELS ==
    [l \in LanguageCode |->
        CASE l = "es" -> <<"Español">>
          [] l = "qu" -> <<"Quechua">>
          [] l = "shp" -> <<"Shipibo-Konibo">>]

LANG_CODES_BY_LABEL ==
    [v \in {LANG_LABELS[k] : k \in LanguageCode} |->
        CHOOSE k \in LanguageCode : LANG_LABELS[k] = v]

MessageKey ==
    {"welcome", "choose_language", "language_set", "help", "disclaimer",
     "short_disclaimer", "urgent_alert_prefix", "urgent_alert_suffix", "fallback_error"}

\* The short disclaimers all start with "Piribot " and differ after it; the two
\* of qu and shp share "mana doctor ni " too.  Every other message is one token.
SHORT_DISCLAIMER ==
    [l \in LanguageCode |->
        CASE l = "es" -> <<"Piribot", "no reemplaza">>
          [] l = "qu" -> <<"Piribot", "mana doctor ni enfermera">>
          [] l = "shp" -> <<"Piribot", "mana doctor ni meraya">>]

MESSAGES ==
    [l \in LanguageCode |->
        [k \in MessageKey |->
            IF k = "short_disclaimer"
            THEN SHORT_DISCLAIMER[l]
            ELSE <<"[" \o l \o ":" \o k \o "]">>]]

\* (mutant) an unknown language reads the table of settings.default_language
get_message_of_default(lang, key) ==
    LET data == IF lang \in DOMAIN MESSAGES
                THEN MESSAGES[lang]
                ELSE MESSAGES[settings.default_language]
    IN  data[key]

get_message(lang, key) ==
    LET data == IF lang \in DOMAIN MESSAGES THEN MESSAGES[lang] ELSE MESSAGES["es"]
    IN  data[key]

get_disclaimer(lang) == get_message(lang, "disclaimer")

get_short_disclaimer(lang) ==
    LET data == IF lang \in DOMAIN MESSAGES THEN MESSAGES[lang] ELSE MESSAGES["es"]
    IN  data["short_disclaimer"]

(***************************************************************************)
(* bot/telegram_bot.py: the local alert detector                           *)
(***************************************************************************)
\* data/alerts.json as json.load returns it: per language, "keywords" and
\* "message".  NoAlerts is the {} of a missing or unreadable file.
NoAlerts == [l \in {} |-> [keywords |-> <<>>, message |-> <<>>]]

AlertsEsQu ==
    [l \in {"es", "qu"} |->
        IF l = "es"
        THEN [keywords |-> << <<"sangrado">>, <<"Fiebre">> >>, message |-> <<"[alerta:es]">>]
        ELSE [keywords |-> << <<"yawar">> >>, message |-> <<"[alerta:qu]">>]]

AlertsQuOnly ==
    [l \in {"qu"} |-> [keywords |-> << <<"yawar">> >>, message |-> <<"[alerta:qu]">>]]

\* (mutant) only the first keyword is tried
OnlyFirstKeyword(keywords, text_lower, alert_message) ==
    IF keywords # <<>> /\ Contains(lower(Head(keywords)), text_lower)
    THEN Some(alert_message)
    ELSE None

\* for kw in keywords: if kw.lower() in text_lower: return alert_message
RECURSIVE FirstMatch(_, _, _)
FirstMatch(keywords, text_lower, alert_message) ==
    IF keywords = <<>>
    THEN None
    ELSE IF Contains(lower(Head(keywords)), text_lower)
         THEN Some(alert_message)
         ELSE FirstMatch(Tail(keywords), text_lower, alert_message)

\* (mutant) without a table the detector uses keywords of its own
detect_with_builtin_keywords(config, text, language) ==
    LET table == IF DOMAIN config = {} THEN AlertsEsQu ELSE config
    IN  IF language \notin DOMAIN table /\ "es" \notin DOMAIN table
        THEN None
        ELSE LET lang_cfg == IF language \in DOMAIN table THEN table[language] ELSE table["es"]
             IN  FirstMatch(lang_cfg.keywords, lower(text), lang_cfg.message)

detect_alert_message(config, text, language) ==
    IF DOMAIN config = {}
    THEN None
    ELSE IF language \notin DOMAIN config /\ "es" \notin DOMAIN config
         THEN None
         ELSE LET lang_cfg == IF language \in DOMAIN config
                              THEN config[language]
                              ELSE config["es"]
              IN  FirstMatch(lang_cfg.keywords, lower(text), lang_cfg.message)

(***************************************************************************)
(* bot/gemini_client.py: the FAQ examples                                  *)
(***************************************************************************)
\* One item of data/faq.json; a missing "question" or "answer" reads as "".
Pair(q, a) == [question |-> q, answer |-> a]

\* data/faq.json as json.load returns it: per language, a list of items.
\* NoFaq is the {} of a missing or unreadable file.
NoFaq == [l \in {} |-> <<>>]

FaqEsQu ==
    [l \in {"es", "qu"} |->
        IF l = "es"
        THEN <<Pair(<<"q1">>, <<"a1">>), Pair(<<"q2">>, <<"a2">>),
               Pair(<<"q3">>, <<"a3">>), Pair(<<"q4">>, <<"a4">>)>>
        ELSE <<Pair(<<"t1">>, <<"k1">>)>>]

\* lang_data[:3]
FirstThree(items) == SubSeq(items, 1, IF Len(items) < 3 THEN Len(items) ELSE 3)

\* the loop of lines 60-66: the examples, each a text
RECURSIVE FaqExamples(_)
FaqExamples(items) ==
    IF items = <<>>
    THEN <<>>
    ELSE LET q == strip(Head(items).question)
             a == strip(Head(items).answer)
         IN  IF q = <<>> \/ a = <<>>
             THEN FaqExamples(Tail(items))
             ELSE << <<"- Pregunta: ">> \o q \o <<NewLine, "  Respuesta: ">> \o a >>
                      \o FaqExamples(Tail(items))

\* "\n".join(examples)
RECURSIVE JoinLines(_)
JoinLines(texts) ==
    IF texts = <<>>
    THEN <<>>
    ELSE IF Len(texts) = 1
         THEN Head(texts)
         ELSE Head(texts) \o <<NewLine>> \o JoinLines(Tail(texts))

build_faq_text(faq, language) ==
    LET has(l) == l \in DOMAIN faq /\ faq[l] # <<>>
    IN  IF ~has(language) /\ ~has("es")
        THEN None
        ELSE LET lang_data == IF has(language) THEN faq[language] ELSE faq["es"]
                 examples == FaqExamples(FirstThree(lang_data))
             IN  IF examples = <<>> THEN None ELSE Some(JoinLines(examples))

(***************************************************************************)
(* bot/prompts.py and bot/gemini_client.py: the prompt                     *)
(***************************************************************************)
\* The parts of the prompt that depend on the arguments: the language label,
\* the block of examples (if faq_examples:) and the block on the alarm sign
\* (if alert_hint:).
build_system_prompt(language, alert_hint, faq_examples) ==
    [lang_label |-> IF language \in DOMAIN LANG_LABELS
                    THEN LANG_LABELS[language]
                    ELSE <<"Español">>,
     faq_examples |-> IF Truthy(faq_examples) THEN Some(strip(faq_examples.text)) ELSE None,
     alert_context |-> alert_hint]

\* history[-n:]
LastN(h, n) == IF Len(h) <= n THEN h ELSE SubSeq(h, Len(h) - n + 1, Len(h))

HistoryWindow == 6

RECURSIVE RenderTurns(_)
RenderTurns(turns) ==
    IF turns = <<>>
    THEN <<>>
    ELSE LET turn == Head(turns)
             text == strip(turn.text)
             speaker == IF turn.role = "user" THEN "Person" ELSE "Piribot"
         IN  IF text = <<>>
             THEN RenderTurns(Tail(turns))
             ELSE <<[speaker |-> speaker, text |-> text]>> \o RenderTurns(Tail(turns))

\* (mutant) the whole stored history goes into the prompt
history_lines_unbounded(history) == RenderTurns(history)

history_lines(history) == RenderTurns(LastN(history, HistoryWindow))

\* `contents`, the one argument of the Gemini call: its parts, and the order
\* the template taken (lines 114-125 or 127-135) puts them in.
BuildContents(user_message, language, alert_hint, history) ==
    LET history_block == history_lines(history)
    IN  [system_prompt |-> build_system_prompt(language, alert_hint,
                                               build_faq_text(faq_data, language)),
         history_block |-> history_block,
         language |-> language,
         user_message |-> user_message,
         layout |-> IF history_block # <<>>
                    THEN <<"system_prompt", "history_block", "language", "user_message">>
                    ELSE <<"system_prompt", "language", "user_message">>]

(***************************************************************************)
(* bot/gemini_client.py: from Gemini's response to the reply               *)
(***************************************************************************)
\* What asyncio.to_thread(generate_content) does: it raises, or it returns a
\* response whose .text is None (here <<>>) or a str.
Raises == [raises |-> TRUE, text |-> <<>>]
Returns(t) == [raises |-> FALSE, text |-> t]

BlankLine == <<NewLine, NewLine>>

\* (mutant) the disclaimer appended without the test of line 152
AlwaysAppendShortDisclaimer(text, language) ==
    text \o BlankLine \o get_short_disclaimer(language)

\* if short_disclaimer not in text: text = f"{text}\n\n{short_disclaimer}"
AppendShortDisclaimer(text, language) ==
    LET short_disclaimer == get_short_disclaimer(language)
    IN  IF ~Contains(short_disclaimer, text)
        THEN text \o BlankLine \o short_disclaimer
        ELSE text

TechnicalDifficulty == <<"[dificultades técnicas]", NewLine, NewLine>>

\* (mutant) the fallback built with the short disclaimer
FallbackWithShortDisclaimer(language) ==
    TechnicalDifficulty \o get_short_disclaimer(language)

\* the except branch of generate_response
FallbackReply(language) == TechnicalDifficulty \o get_disclaimer(language)

\* text = (getattr(response, "text", None) or "").strip(); empty raises ValueError
BackendFailed(response) == response.raises \/ strip(response.text) = <<>>

\* the value generate_response returns once the Gemini call has ended
ReplyOf(response, language) ==
    IF BackendFailed(response)
    THEN FallbackReply(language)
    ELSE AppendShortDisclaimer(strip(response.text), language)

(***************************************************************************)
(* bot/telegram_bot.py: user_data                                          *)
(***************************************************************************)
Users == {"u1", "u2"}

\* A user_data dict no handler has written yet: no "language" key (shown as
\* "unset"), no "history" key (read as [] by line 250), no "alert_shown" key
\* (read as False by line 254).
FreshUserData == [language |-> "unset", history |-> <<>>, alert_shown |-> FALSE]

\* (mutant) whatever is stored is the language, None included
stored_language(ud) == ud.language

get_user_language(ud) ==
    IF ud.language \in {"es", "qu", "shp"} THEN ud.language ELSE settings.default_language

set_user_language(ud, lang) == [ud EXCEPT !.language = lang]

\* (mutant) a start() that begins the session anew
ClearUserData(ud, lang) == [FreshUserData EXCEPT !.language = lang]

\* (mutant) a start() that keeps the language the user chose
KeepUserData(ud, lang) == IF ud.language = "unset" THEN set_user_language(ud, lang) ELSE ud

\* what start() writes: line 150
StartUserData(ud, lang) == set_user_language(ud, lang)

HistoryCap == 10

\* (mutant) history[:10]
FirstTen(history) == SubSeq(history, 1, IF Len(history) < HistoryCap THEN Len(history) ELSE HistoryCap)

\* (mutant) history[-9:]
LastNine(history) == LastN(history, HistoryCap - 1)

\* history[-10:]
TrimHistory(history) == LastN(history, HistoryCap)

Turn(role, text) == [role |-> role, text |-> text]

\* (mutant) the warning is sent and alert_shown is left as it was
LeaveAlertShown(ud) == ud

\* context.user_data["alert_shown"] = True, line 259
MarkAlertShown(ud) == [ud EXCEPT !.alert_shown = TRUE]

\* (mutant) the reply stored as Gemini gave it, before the disclaimer
RawTurns(user_text, reply, response) ==
    <<Turn("user", user_text), Turn("assistant", strip(response.text))>>

\* the two turns lines 271-272 append
NewTurns(user_text, reply, response) ==
    <<Turn("user", user_text), Turn("assistant", reply)>>

\* (mutant) one dict for all users, as context.bot_data is
SharedData(u) == user_data["u1"]

\* context.user_data, as handle_text_message reads it for the sender u
UserDataOf(u) == user_data[u]

(***************************************************************************)
(* bot/telegram_bot.py: what handle_text_message reads from the update     *)
(***************************************************************************)
\* An inbound message: .text and .caption (None and "" are both <<>>), and
\* whether .photo is non-empty.
TextMessage(t) == [text |-> t, caption |-> <<>>, photo |-> FALSE]
PhotoMessage(c) == [text |-> <<>>, caption |-> c, photo |-> TRUE]

GenericImageText == <<"He enviado una imagen">>

\* (mutant) lines 227-231 left out: a photo counts for nothing
UserTextIgnoringPhoto(m) == strip(IF m.text # <<>> THEN m.text ELSE m.caption)

\* lines 226-231
UserTextOf(m) ==
    LET user_text == strip(IF m.text # <<>> THEN m.text ELSE m.caption)
    IN  IF user_text = <<>> /\ m.photo THEN GenericImageText ELSE user_text

\* (mutant) the label test of line 236 never taken
NeverLanguageLabel(user_text) == FALSE

\* user_text in LANG_CODES_BY_LABEL
IsLanguageLabel(user_text) == user_text \in DOMAIN LANG_CODES_BY_LABEL

\* (mutant) line 257 without `not alert_already_shown`
AlertWheneverDetected(alert_message, alert_already_shown) == Truthy(alert_message)

\* if alert_message and not alert_already_shown
ShouldAlert(alert_message, alert_already_shown) ==
    Truthy(alert_message) /\ ~alert_already_shown

\* (mutant) alert_hint = bool(alert_message)
HintWheneverDetected(alert_message, alert_already_shown) == Truthy(alert_message)

\* (mutant) the warning is sent but the prompt is never told
HintNever(alert_message, alert_already_shown) == FALSE

\* alert_hint as line 266 passes it: False (line 255) unless line 260 ran
AlertHint(alert_message, alert_already_shown) ==
    ShouldAlert(alert_message, alert_already_shown)

(***************************************************************************)
(* The handler coroutines.  A frame is one call of a handler, suspended at *)
(* an await: its locals, the place it waits at, and (ghost) what           *)
(* user_data held when the call began.                                     *)
(*                                                                         *)
(* reply_text hands its text to Telegram when it is called and returns     *)
(* later; it is taken to succeed.  generate_response catches every         *)
(* Exception itself, so the except branch of handle_text_message (lines    *)
(* 277-280, "fallback_error") is never entered and has no action here.     *)
(*                                                                         *)
(* The local `history` of line 250 is the list object stored in user_data  *)
(* (or a new [] if none is stored); a frame holds its value.  With one     *)
(* handler in flight at a time the two cannot differ.                      *)
(***************************************************************************)
NoContents == [system_prompt |-> build_system_prompt("es", FALSE, None),
               history_block |-> <<>>, language |-> "es", user_message |-> <<>>,
               layout |-> <<>>]

NoMessage == [text |-> <<>>, caption |-> <<>>, photo |-> FALSE]

Frame(handler, u, pc, lang) ==
    [handler |-> handler, sid |-> u, pc |-> pc, lang |-> lang,
     user_text |-> <<>>, history |-> <<>>,
     alert_message |-> None, alert_already_shown |-> FALSE, alert_hint |-> FALSE,
     contents |-> NoContents, called_backend |-> FALSE, backend_calls |-> 0,
     response |-> Raises, reply |-> <<>>,
     message |-> NoMessage,
     at_start |-> user_data[u]]

Sent(kind, text) == [kind |-> kind, text |-> text]

\* (mutant) concurrent_updates(True)
ConcurrentUpdatesOn == TRUE

\* ApplicationBuilder().concurrent_updates(False): the application awaits the
\* handler of one update before it takes the next update from its queue.
ConcurrentUpdates == FALSE

CanDispatch == budget > 0 /\ (ConcurrentUpdates \/ tasks = <<>>)

RemoveAt(seq, i) == SubSeq(seq, 1, i - 1) \o SubSeq(seq, i + 1, Len(seq))

\* /start, up to the first await (line 160)
DispatchStart(u) ==
    /\ CanDispatch
    /\ LET ud == StartUserData(user_data[u], settings.default_language)
           lang == get_user_language(ud)
       IN  /\ user_data' = [user_data EXCEPT ![u] = ud]
           /\ outbox' = [outbox EXCEPT ![u] = <<Sent("welcome", get_message(lang, "welcome"))>>]
           /\ tasks' = Append(tasks, Frame("start", u, "await_welcome", lang))
    /\ budget' = budget - 1
    /\ UNCHANGED <<environ, settings, alerts_config, faq_data, probe, alerts_sent, risk_prompts, appended, env>>

\* start(), from one reply_text to the next (lines 164 and 168)
StartContinues(i) ==
    /\ i \in 1..Len(tasks)
    /\ tasks[i].pc \in {"await_welcome", "await_choose_language"}
    /\ LET f == tasks[i]
           first == f.pc = "await_welcome"
           key == IF first THEN "choose_language" ELSE "disclaimer"
           text == IF first THEN get_message(f.lang, "choose_language") ELSE get_disclaimer(f.lang)
       IN  /\ outbox' = [outbox EXCEPT ![f.sid] = Append(@, Sent(key, text))]
           /\ tasks' = [tasks EXCEPT ![i].pc = IF first THEN "await_choose_language" ELSE "await_last"]
    /\ UNCHANGED <<environ, settings, alerts_config, faq_data, probe, user_data, alerts_sent, risk_prompts, appended, env, budget>>

\* /help, up to its await (line 187)
DispatchHelp(u) ==
    /\ CanDispatch
    /\ LET lang == get_user_language(user_data[u])
       IN  /\ outbox' = [outbox EXCEPT ![u] = <<Sent("help", get_message(lang, "help"))>>]
           /\ tasks' = Append(tasks, Frame("help", u, "await_last", lang))
    /\ budget' = budget - 1
    /\ UNCHANGED <<environ, settings, alerts_config, faq_data, probe, user_data, alerts_sent, risk_prompts, appended, env>>

\* /language, up to its await (line 204)
DispatchLanguage(u) ==
    /\ CanDispatch
    /\ LET lang == get_user_language(user_data[u])
       IN  /\ outbox' = [outbox EXCEPT ![u] =
                            <<Sent("choose_language", get_message(lang, "choose_language"))>>]
           /\ tasks' = Append(tasks, Frame("language", u, "await_last", lang))
    /\ budget' = budget - 1
    /\ UNCHANGED <<environ, settings, alerts_config, faq_data, probe, user_data, alerts_sent, risk_prompts, appended, env>>

\* handle_text_message, lines 226-233: nothing to read, the handler returns
\* without an await; the application has yet to finish with the update
DropMessage(u, m) ==
    /\ CanDispatch
    /\ UserTextOf(m) = <<>>
    /\ outbox' = [outbox EXCEPT ![u] = <<>>]
    /\ tasks' = Append(tasks,
           [Frame("text", u, "returned", get_user_language(user_data[u])) EXCEPT !.message = m])
    /\ budget' = budget - 1
    /\ UNCHANGED <<environ, settings, alerts_config, faq_data, probe, user_data, alerts_sent, risk_prompts, appended, env>>

\* handle_text_message, lines 236-244: a label of the language keyboard
SelectLanguage(u, m) ==
    /\ CanDispatch
    /\ UserTextOf(m) # <<>>
    /\ IsLanguageLabel(UserTextOf(m))
    /\ LET lang == LANG_CODES_BY_LABEL[UserTextOf(m)]
       IN  /\ user_data' = [user_data EXCEPT ![u] = set_user_language(@, lang)]
           /\ outbox' = [outbox EXCEPT ![u] =
                            <<Sent("language_set", get_message(lang, "language_set"))>>]
           /\ tasks' = Append(tasks,
                  [Frame("text", u, "await_last", lang) EXCEPT
                      !.user_text = UserTextOf(m), !.message = m])
    /\ budget' = budget - 1
    /\ UNCHANGED <<environ, settings, alerts_config, faq_data, probe, alerts_sent, risk_prompts, appended, env>>

\* handle_text_message, lines 247-258 (a warning is sent) or 247-143 of
\* generate_response (no warning: the prompt is built and Gemini is called)
BeginMessage(u, m) ==
    /\ CanDispatch
    /\ UserTextOf(m) # <<>>
    /\ ~IsLanguageLabel(UserTextOf(m))
    /\ LET user_text == UserTextOf(m)
           lang == get_user_language(UserDataOf(u))
           history == UserDataOf(u).history
           alert_message == detect_alert_message(alerts_config, user_text, lang)
           alert_already_shown == UserDataOf(u).alert_shown
           f == [Frame("text", u, "await_backend", lang) EXCEPT
                    !.user_text = user_text, !.history = history, !.message = m,
                    !.alert_message = alert_message,
                    !.alert_already_shown = alert_already_shown]
       IN  IF ShouldAlert(alert_message, alert_already_shown)
           THEN /\ outbox' = [outbox EXCEPT ![u] = <<Sent("alert", alert_message.text)>>]
                /\ alerts_sent' = [alerts_sent EXCEPT ![u] = @ + 1]
                /\ risk_prompts' = risk_prompts
                /\ tasks' = Append(tasks, [f EXCEPT !.pc = "await_alert"])
           ELSE /\ outbox' = [outbox EXCEPT ![u] = <<>>]
                /\ alerts_sent' = alerts_sent
                /\ risk_prompts' = [risk_prompts EXCEPT ![u] =
                       IF AlertHint(alert_message, alert_already_shown) THEN @ + 1 ELSE @]
                /\ tasks' = Append(tasks,
                       [f EXCEPT !.called_backend = TRUE, !.backend_calls = 1,
                                 !.contents = BuildContents(user_text, lang,
                                     AlertHint(alert_message, alert_already_shown), history)])
    /\ budget' = budget - 1
    /\ UNCHANGED <<environ, settings, alerts_config, faq_data, probe, user_data, appended, env>>

\* handle_text_message, lines 259-260, and generate_response up to its await
AlertSent(i) ==
    /\ i \in 1..Len(tasks)
    /\ tasks[i].pc = "await_alert"
    /\ LET f == tasks[i]
           alert_hint == AlertHint(f.alert_message, f.alert_already_shown)
       IN  /\ user_data' = [user_data EXCEPT ![f.sid] = MarkAlertShown(@)]
           /\ risk_prompts' = [risk_prompts EXCEPT ![f.sid] = IF alert_hint THEN @ + 1 ELSE @]
           /\ tasks' = [tasks EXCEPT ![i] =
                  [f EXCEPT !.pc = "await_backend", !.alert_hint = alert_hint,
                            !.called_backend = TRUE, !.backend_calls = 1,
                            !.contents = BuildContents(f.user_text, f.lang, alert_hint, f.history)]]
    /\ UNCHANGED <<environ, settings, alerts_config, faq_data, probe, outbox, alerts_sent, appended, env, budget>>

\* (mutant) a failed Gemini call is made once more
RetriesOnceAfterFailure(response, calls) == BackendFailed(response) /\ calls < 2

\* generate_response makes its one call of generate_content inside the try
\* (lines 138-141) and has no loop around it: whatever the call gave, no
\* other follows
Retries(response, calls) == FALSE

\* generate_response from line 146 on, then handle_text_message lines 271-276
BackendEnds(i, response) ==
    /\ i \in 1..Len(tasks)
    /\ tasks[i].pc = "await_backend"
    /\ LET f == tasks[i]
           reply == ReplyOf(response, f.lang)
           turns == NewTurns(f.user_text, reply, response)
           history == f.history \o turns
       IN  IF Retries(response, f.backend_calls)
           THEN /\ tasks' = [tasks EXCEPT ![i].backend_calls = @ + 1]
                /\ UNCHANGED <<user_data, appended, outbox>>
           ELSE /\ user_data' = [user_data EXCEPT ![f.sid].history = TrimHistory(history)]
                /\ appended' = [appended EXCEPT ![f.sid] = @ \o turns]
                /\ outbox' = [outbox EXCEPT ![f.sid] = Append(@, Sent("reply", reply))]
                /\ tasks' = [tasks EXCEPT ![i] =
                       [f EXCEPT !.pc = "await_last", !.history = history,
                                 !.response = response, !.reply = reply]]
    /\ UNCHANGED <<environ, settings, alerts_config, faq_data, probe, alerts_sent, risk_prompts, env, budget>>

\* the last reply_text of a handler returns, and so does the handler; the
\* application is done with the update
HandlerReturns(i) ==
    /\ i \in 1..Len(tasks)
    /\ tasks[i].pc \in {"await_last", "returned"}
    /\ tasks' = RemoveAt(tasks, i)
    /\ UNCHANGED <<environ, settings, alerts_config, faq_data, probe, user_data, outbox, alerts_sent, risk_prompts, appended, env, budget>>

Next ==
    \/ \E u \in env.senders : DispatchStart(u)
    \/ \E u \in env.senders : DispatchHelp(u)
    \/ \E u \in env.senders : DispatchLanguage(u)
    \/ \E u \in env.senders, m \in env.messages : DropMessage(u, m)
    \/ \E u \in env.senders, m \in env.messages : SelectLanguage(u, m)
    \/ \E u \in env.senders, m \in env.messages : BeginMessage(u, m)
    \/ \E i \in 1..Len(tasks) : StartContinues(i)
    \/ \E i \in 1..Len(tasks) : AlertSent(i)
    \/ \E i \in 1..Len(tasks), r \in env.responses : BackendEnds(i, r)
    \/ \E i \in 1..Len(tasks) : HandlerReturns(i)

(***************************************************************************)
(* The states after import.                                                *)
(***************************************************************************)
NoProbe == [fn |-> "none"]

\* PIRIBOT_DEFAULT_LANGUAGE set to one of the three codes
ValidEnv == {raw \in EnvValues : raw.some /\ raw.text \in LanguageCode}

BootFrom(raws, configs, faqs, e, n) ==
    /\ environ \in raws
    /\ settings = load_settings(environ)
    /\ alerts_config \in configs
    /\ faq_data \in faqs
    /\ probe = NoProbe
    /\ user_data = [u \in Users |-> FreshUserData]
    /\ tasks = <<>>
    /\ outbox = [u \in Users |-> <<>>]
    /\ alerts_sent = [u \in Users |-> 0]
    /\ risk_prompts = [u \in Users |-> 0]
    /\ appended = [u \in Users |-> <<>>]
    /\ env = e
    /\ budget = n

Boot(configs, faqs, e, n) == BootFrom(ValidEnv, configs, faqs, e, n)

RiskyText == <<"Tengo", "FIEBRE", "yawar">>
BenignText == <<"estoy", "bien">>

\* Two users; blank, label, risky and benign texts; Gemini raises, answers
\* nothing, answers, or answers with the disclaimer of es in front.
MainEnv ==
    [senders |-> Users,
     messages |-> {TextMessage(<<Blank>>), TextMessage(<<Blank, "Quechua", Blank>>),
                   TextMessage(<<"Español">>), TextMessage(RiskyText),
                   TextMessage(BenignText)},
     responses |-> {Raises, Returns(<<Blank>>), Returns(<<"ok">>),
                    Returns(SHORT_DISCLAIMER["es"] \o <<"ok">>)}]

Init == Boot({NoAlerts, AlertsEsQu, AlertsQuOnly}, {FaqEsQu}, MainEnv, MaxUpdates)

Spec == Init /\ [][Next]_vars

\* One user who keeps writing: enough exchanges to fill the history past its cap.
CapEnv ==
    [senders |-> {"u1"},
     messages |-> {TextMessage(<<Blank>>), TextMessage(<<"Español">>), TextMessage(RiskyText)},
     responses |-> {Raises, Returns(<<"ok">>)}]

InitCap == Boot({AlertsEsQu}, {FaqEsQu}, CapEnv, MaxCapUpdates)

SpecCap == InitCap /\ [][Next]_vars

\* One update (the 1 of InitPost), and every text of up to MaxLen tokens as
\* Gemini's answer to it.
ResponseTokens ==
    {"ok", Blank, "Piribot", "no reemplaza", "mana doctor ni enfermera"}

RECURSIVE TextsUpTo(_)
TextsUpTo(n) ==
    IF n = 0
    THEN {<<>>}
    ELSE LET shorter == TextsUpTo(n - 1)
         IN  shorter \cup {Append(t, c) : t \in shorter, c \in ResponseTokens}

PostEnv ==
    [senders |-> {"u1"},
     messages |-> {TextMessage(<<Blank>>), TextMessage(<<"Quechua">>), TextMessage(RiskyText),
                   PhotoMessage(<<>>)},
     responses |-> {Raises} \cup {Returns(t) : t \in TextsUpTo(MaxLen)}]

InitPost == Boot({AlertsEsQu}, {FaqEsQu}, PostEnv, 1)

SpecPost == InitPost /\ [][Next]_vars

\* Every value of PIRIBOT_DEFAULT_LANGUAGE, and a user who picks languages.
LangEnv ==
    [senders |-> {"u1"},
     messages |-> {TextMessage(<<Blank>>), TextMessage(<<"Quechua">>),
                   TextMessage(<<"Shipibo-Konibo">>), TextMessage(RiskyText)},
     responses |-> {Raises, Returns(<<"ok">>)}]

InitLang == BootFrom(EnvValues, {AlertsEsQu}, {FaqEsQu}, LangEnv, MaxUpdates)

SpecLang == InitLang /\ [][Next]_vars

\* The event loop resumes a handler whose await has completed; a reply_text
\* and the Gemini call always complete, the latter by returning or raising.
Resume ==
    \E i \in 1..Len(tasks) :
        \/ StartContinues(i)
        \/ AlertSent(i)
        \/ \E r \in env.responses : BackendEnds(i, r)
        \/ HandlerReturns(i)

\* Photos and messages without text, with and without a caption.
PhotoEnv ==
    [senders |-> {"u1"},
     messages |-> {TextMessage(<<>>), TextMessage(<<Blank, NewLine>>), TextMessage(<<"Quechua">>),
                   TextMessage(BenignText), PhotoMessage(<<>>), PhotoMessage(<<NewLine, Blank>>),
                   PhotoMessage(RiskyText)},
     responses |-> {Raises, Returns(<<"ok">>)}]

InitPhoto == Boot({AlertsEsQu}, {FaqEsQu}, PhotoEnv, MaxUpdates)

SpecPhoto == InitPhoto /\ [][Next]_vars

\* One user, one process default: a message of each kind, and both ends of
\* the Gemini call.
LiveEnv ==
    [senders |-> {"u1"},
     messages |-> {TextMessage(<<Blank>>), TextMessage(<<"Quechua">>), TextMessage(RiskyText),
                   PhotoMessage(<<>>)},
     responses |-> {Raises, Returns(<<"ok">>)}]

InitLive == BootFrom({EnvUnset}, {AlertsEsQu}, {FaqEsQu}, LiveEnv, MaxUpdates)

SpecLive == InitLive /\ [][Next]_vars /\ WF_vars(Resume)

(***************************************************************************)
(* The pure functions called directly: get_message, _detect_alert_message  *)
(* and _build_faq_text, on arguments the handlers need not pass them.      *)
(***************************************************************************)
\* a language code no table knows, besides the three supported
ProbeLanguages == LanguageCode \cup {"fr"}

ProbeTokens == {"Tengo", "FIEBRE", "yawar", "bien"}

RECURSIVE TextsOver(_, _)
TextsOver(tokens, n) ==
    IF n = 0
    THEN {<<>>}
    ELSE LET shorter == TextsOver(tokens, n - 1)
         IN  shorter \cup {Append(t, c) : t \in shorter, c \in tokens}

\* es has a keyword of two words and keywords in upper case; shp has an
\* entry without keywords
AlertsPhrases ==
    [l \in {"es", "shp"} |->
        IF l = "es"
        THEN [keywords |-> << <<"tengo", "fiebre">>, <<"Yawar">>, <<"bien", "bien">> >>,
              message |-> <<"[alerta:es]">>]
        ELSE [keywords |-> <<>>, message |-> <<"[alerta:shp]">>]]

\* qu has the empty keyword, and shp an empty message
AlertsDegenerate ==
    [l \in {"qu", "shp"} |->
        IF l = "qu"
        THEN [keywords |-> << <<>> >>, message |-> <<"[alerta:qu]">>]
        ELSE [keywords |-> << <<"bien">>, <<"fiebre">> >>, message |-> <<>>]]

ProbeAlerts == {NoAlerts, AlertsEsQu, AlertsQuOnly, AlertsPhrases, AlertsDegenerate}

\* es starts with an item without question and then has three whole ones;
\* qu has an item without answer between whole ones; shp has an empty list
FaqMalformed ==
    [l \in {"es", "qu", "shp"} |->
        CASE l = "es" -> <<Pair(<<Blank>>, <<"a0">>), Pair(<<"q1">>, <<"a1">>),
                           Pair(<<"q2">>, <<"a2">>), Pair(<<"q3">>, <<"a3">>)>>
          [] l = "qu" -> <<Pair(<<"t1">>, <<"k1">>), Pair(<<"t2">>, <<>>),
                           Pair(<<"t3", Blank>>, <<"k3">>)>>
          [] l = "shp" -> <<>>]

FaqQuOnly ==
    [l \in {"qu"} |-> <<Pair(<<"t1">>, <<"k1">>), Pair(<<"t2">>, <<"k2">>)>>]

ProbeFaqs == {NoFaq, FaqEsQu, FaqMalformed, FaqQuOnly}

\* The functions keep no state of their own: a behaviour makes one call.
CallGetMessage(lang, key) ==
    /\ probe = NoProbe
    /\ probe' = [fn |-> "get_message", language |-> lang, key |-> key,
                 result |-> get_message(lang, key)]
    /\ UNCHANGED <<environ, settings, alerts_config, faq_data, user_data, tasks, outbox, alerts_sent, risk_prompts,
                   appended, env, budget>>

CallDetectAlertMessage(text, language) ==
    /\ probe = NoProbe
    /\ probe' = [fn |-> "_detect_alert_message", text |-> text, language |-> language,
                 result |-> detect_alert_message(alerts_config, text, language)]
    /\ UNCHANGED <<environ, settings, alerts_config, faq_data, user_data, tasks, outbox, alerts_sent, risk_prompts,
                   appended, env, budget>>

CallBuildFaqText(language) ==
    /\ probe = NoProbe
    /\ probe' = [fn |-> "_build_faq_text", language |-> language,
                 result |-> build_faq_text(faq_data, language)]
    /\ UNCHANGED <<environ, settings, alerts_config, faq_data, user_data, tasks, outbox, alerts_sent, risk_prompts,
                   appended, env, budget>>

NextFn ==
    \/ \E lang \in ProbeLanguages, key \in MessageKey : CallGetMessage(lang, key)
    \/ \E text \in TextsOver(ProbeTokens, MaxLen), language \in ProbeLanguages :
           CallDetectAlertMessage(text, language)
    \/ \E language \in ProbeLanguages : CallBuildFaqText(language)

NoEnv == [senders |-> {}, messages |-> {}, responses |-> {}]

InitFn == Boot(ProbeAlerts, ProbeFaqs, NoEnv, 0)

SpecFn == InitFn /\ [][NextFn]_vars

(***************************************************************************)
(* The claims.  Frames(P) are the handler calls in flight that satisfy P;  *)
(* a frame with called_backend is a call of handle_text_message that has   *)
(* reached the Gemini call, and at pc "await_last" that call has ended.    *)
(***************************************************************************)
FrameIndexes == 1..Len(tasks)

Answered(f) == f.handler = "text" /\ f.called_backend /\ f.pc = "await_last"

\* the language _get_user_language resolves from the user_data the call began with
LanguageAtStart(f) ==
    IF f.at_start.language \in LanguageCode
    THEN f.at_start.language
    ELSE settings.default_language

\* C1: when the Gemini call fails (it raises, or its text is empty), the
\* user's stored history after the message is the history before it.
C1_FailureLeavesHistory ==
    \A i \in FrameIndexes :
        (Answered(tasks[i]) /\ BackendFailed(tasks[i].response))
            => user_data[tasks[i].sid].history = tasks[i].at_start.history

\* C2: when the Gemini call fails, the one reply sent after it is the fixed
\* technical-difficulty preamble followed by the full disclaimer of the
\* language resolved for the user; nothing else is sent in its place.
C2_FailureReplyIsPreambleAndDisclaimer ==
    \A i \in FrameIndexes :
        LET f == tasks[i]
            expected == <<"[dificultades técnicas]", "\n", "\n">>
                            \o MESSAGES[LanguageAtStart(f)]["disclaimer"]
            box == outbox[f.sid]
        IN  (Answered(f) /\ BackendFailed(f.response))
                => /\ f.reply = expected
                   /\ box # <<>>
                   /\ box[Len(box)] = [kind |-> "reply", text |-> expected]
                   /\ \A k \in 1..Len(box) : box[k].kind \in {"alert", "reply"}
                   /\ Cardinality({k \in 1..Len(box) : box[k].kind = "reply"}) = 1

C2_Witness ==
    \E i \in FrameIndexes :
        /\ Answered(tasks[i])
        /\ ~tasks[i].response.raises
        /\ BackendFailed(tasks[i].response)
        /\ tasks[i].at_start.language = "qu"
        /\ settings.default_language = "es"

\* C3: a user is sent at most one standalone warning: the first message for
\* which the detector gives a warning while alert_shown is unset sends it
\* (and alert_shown is set once that send returns), and a message for which
\* the detector gives a warning when alert_shown is already set sends none.
C3_AtMostOneWarning ==
    /\ \A u \in Users :
        /\ alerts_sent[u] <= 1
        /\ alerts_sent[u] = 1 =>
              \/ user_data[u].alert_shown
              \/ \E i \in FrameIndexes : tasks[i].sid = u /\ tasks[i].pc = "await_alert"
        /\ user_data[u].alert_shown => alerts_sent[u] = 1
    /\ \A i \in FrameIndexes :
        LET f == tasks[i]
            warned == \E k \in 1..Len(outbox[f.sid]) : outbox[f.sid][k].kind = "alert"
        IN  (f.handler = "text" /\ ~IsLanguageLabel(f.user_text)
                /\ Truthy(detect_alert_message(alerts_config, f.user_text, LanguageAtStart(f))))
               => /\ alerts_sent[f.sid] = 1
                  /\ warned = ~f.at_start.alert_shown
                  /\ f.pc # "await_alert" => user_data[f.sid].alert_shown

C3_Witness ==
    \E i \in FrameIndexes :
        LET f == tasks[i]
        IN  /\ f.handler = "text"
            /\ f.pc = "await_backend"
            /\ f.at_start.alert_shown
            /\ f.lang = "qu"
            /\ Truthy(detect_alert_message(alerts_config, f.user_text, f.lang))
            /\ outbox[f.sid] = <<>>
            /\ f.at_start.history # <<>>
            /\ alerts_sent[f.sid] = 1

\* C4: alert_shown is unset in a fresh session, and no step of any handler
\* unsets it once it is set.
C4_AlertShownMonotonic ==
    /\ \A u \in Users : ~user_data[u].alert_shown
    /\ [][\A u \in Users : user_data[u].alert_shown => user_data'[u].alert_shown]_vars

C4_Witness ==
    \E i \in FrameIndexes :
        /\ tasks[i].handler = "start"
        /\ tasks[i].at_start.alert_shown
        /\ tasks[i].at_start.language \in LanguageCode
        /\ tasks[i].at_start.language # settings.default_language
        /\ user_data[tasks[i].sid].alert_shown

\* C5: the alert_hint in the prompt of a message is true exactly when the
\* detector gave a warning for its text and alert_shown was unset when the
\* message began.
C5_RiskFlagIffFreshWarning ==
    \A i \in FrameIndexes :
        LET f == tasks[i]
        IN  (f.handler = "text" /\ f.called_backend)
               => f.contents.system_prompt.alert_context =
                     (/\ Truthy(detect_alert_message(alerts_config, f.user_text,
                                                     LanguageAtStart(f)))
                      /\ ~f.at_start.alert_shown)

C5_Witness ==
    \E i \in FrameIndexes :
        /\ tasks[i].handler = "text"
        /\ tasks[i].called_backend
        /\ tasks[i].contents.system_prompt.alert_context
        /\ tasks[i].at_start.history # <<>>

\* C6: a stored history never has more than 10 entries, and it is always
\* the last 10 (or all, if fewer) of the turns appended for the user, in
\* the order they were appended.
C6_HistoryIsLastTen ==
    \A u \in Users :
        LET all == appended[u]
            kept == IF Len(all) <= 10 THEN Len(all) ELSE 10
        IN  /\ Len(user_data[u].history) <= 10
            /\ user_data[u].history = [k \in 1..kept |-> all[Len(all) - kept + k]]

C6_Witness ==
    \E u \in Users :
        /\ Len(appended[u]) = 12
        /\ Len(user_data[u].history) = 10
        /\ \E k \in 1..9 : user_data[u].history[k] # user_data[u].history[k + 2]

\* C7: at most one handler call is in flight; while a message waits for its
\* warning to be sent or for Gemini, the user's stored history is the one
\* the message began with and the prompt was built from it; once Gemini has
\* ended, the message's two turns are the last of the stored history.
C7_NoInterleaving ==
    /\ Len(tasks) <= 1
    /\ \A i \in FrameIndexes :
        LET f == tasks[i]
            stored == user_data[f.sid].history
        IN  f.handler = "text" =>
              /\ f.pc \in {"await_alert", "await_backend"} => stored = f.at_start.history
              /\ f.called_backend =>
                    f.contents.history_block = history_lines(f.at_start.history)
              /\ Answered(f) =>
                    /\ Len(stored) >= 2
                    /\ stored[Len(stored) - 1] = [role |-> "user", text |-> f.user_text]
                    /\ stored[Len(stored)] = [role |-> "assistant", text |-> f.reply]

C7_Witness ==
    \E i \in FrameIndexes :
        /\ tasks[i].handler = "text"
        /\ tasks[i].pc = "await_backend"
        /\ tasks[i].at_start.history # <<>>
        /\ tasks[i].alert_hint
        /\ budget > 0

\* The labels of the language keyboard and their codes, as the claims read them.
LabelCode(text) ==
    CASE text = <<"Español">> -> "es"
      [] text = <<"Quechua">> -> "qu"
      [] text = <<"Shipibo-Konibo">> -> "shp"
      [] OTHER -> "unset"

\* C8: a message whose text is a label of the language keyboard sets the
\* user's language to the label's code, sends that language's confirmation
\* and nothing else, and ends: Gemini is not called, no warning is sent, and
\* history and alert_shown stay as they were.
C8_SelectorOnlySetsLanguage ==
    \A i \in FrameIndexes :
        LET f == tasks[i]
            code == LabelCode(f.user_text)
        IN  (f.handler = "text" /\ code # "unset")
               => /\ user_data[f.sid].language = code
                  /\ outbox[f.sid] =
                        <<[kind |-> "language_set", text |-> MESSAGES[code]["language_set"]]>>
                  /\ f.pc = "await_last"
                  /\ ~f.called_backend
                  /\ user_data[f.sid].history = f.at_start.history
                  /\ user_data[f.sid].alert_shown = f.at_start.alert_shown

C8_Witness ==
    \E i \in FrameIndexes :
        LET f == tasks[i]
        IN  /\ f.handler = "text"
            /\ f.user_text = <<"Quechua">>
            /\ f.at_start.history # <<>>
            /\ ~f.at_start.alert_shown
            /\ f.at_start.language = "es"
            /\ user_data[f.sid].language = "qu"

\* C9: a reply made from an answer of Gemini ends with the short disclaimer
\* of the language and holds that disclaimer exactly once.
C9_ReplyEndsWithOneDisclaimer ==
    \A i \in FrameIndexes :
        LET f == tasks[i]
            short == MESSAGES[f.lang]["short_disclaimer"]
        IN  (Answered(f) /\ ~BackendFailed(f.response))
               => /\ EndsWith(f.reply, short)
                  /\ Cardinality(Occurrences(short, f.reply)) = 1

\* C10: given Gemini's stripped text, the post-processing returns it
\* unchanged if it ends with the short disclaimer of the language; if the
\* disclaimer is absent the result is the text, a blank line and the
\* disclaimer, holding the disclaimer once; and post-processing the result
\* again returns the result.
C10_DisclaimerIdempotent ==
    \A i \in FrameIndexes :
        LET f == tasks[i]
            short == MESSAGES[f.lang]["short_disclaimer"]
            text == strip(f.response.text)
        IN  (Answered(f) /\ ~BackendFailed(f.response))
               => /\ EndsWith(text, short) => f.reply = text
                  /\ Occurrences(short, text) = {} =>
                        /\ f.reply = text \o <<"\n", "\n">> \o short
                        /\ Cardinality(Occurrences(short, f.reply)) = 1
                  /\ ReplyOf(Returns(f.reply), f.lang) = f.reply

C10_Witness ==
    \E i \in FrameIndexes :
        LET f == tasks[i]
            short == MESSAGES[f.lang]["short_disclaimer"]
        IN  /\ Answered(f)
            /\ ~BackendFailed(f.response)
            /\ f.lang = "qu"
            /\ EndsWith(f.response.text, short)
            /\ Len(f.response.text) > Len(short)
            /\ f.reply = f.response.text

\* the first frame's message made the detector answer while the user's
\* alert_shown was still unset
FirstWarning(f) ==
    /\ f.handler = "text"
    /\ f.pc # "returned"
    /\ f.user_text # <<>>
    /\ ~IsLanguageLabel(f.user_text)
    /\ ~f.at_start.alert_shown
    /\ Truthy(detect_alert_message(alerts_config, f.user_text, LanguageAtStart(f)))

\* C11: when a message triggers the user's first warning and the Gemini
\* call succeeds, exactly two replies are sent for it, in this order: the
\* standalone warning, then the generated reply, whose prompt carried the
\* alarm-sign context; and alert_shown is already set while the Gemini
\* call is being made.
C11_WarningThenReply ==
    \A i \in FrameIndexes :
        LET f == tasks[i]
            box == outbox[f.sid]
        IN  FirstWarning(f) =>
               /\ f.called_backend =>
                     /\ user_data[f.sid].alert_shown
                     /\ f.contents.system_prompt.alert_context
                     /\ box # <<>> /\ box[1].kind = "alert"
               /\ (f.pc = "await_backend") => Len(box) = 1
               /\ (Answered(f) /\ ~BackendFailed(f.response)) =>
                     /\ Len(box) = 2
                     /\ box[1].kind = "alert"
                     /\ box[1].text \in {alerts_config[l].message : l \in DOMAIN alerts_config}
                     /\ box[2] = [kind |-> "reply", text |-> f.reply]

C11_Witness ==
    \E i \in FrameIndexes :
        /\ FirstWarning(tasks[i])
        /\ Answered(tasks[i])
        /\ ~BackendFailed(tasks[i].response)
        /\ Len(outbox[tasks[i].sid]) = 2


\* every warning message the loaded alerts table holds
AlertMessages == {alerts_config[l].message : l \in DOMAIN alerts_config}

\* C12: when the Gemini call succeeds, the history the handler holds before
\* trimming is the history the message began with plus exactly two turns:
\* a user turn with the text read from the message and an assistant turn
\* with the reply as sent, disclaimer included; the standalone warning is
\* never among the turns appended.
C12_TwoTurnsPerSuccess ==
    /\ \A i \in FrameIndexes :
          LET f == tasks[i]
              box == outbox[f.sid]
              raw == IF f.message.text # <<>> THEN f.message.text ELSE f.message.caption
              short == SHORT_DISCLAIMER[LanguageAtStart(f)]
          IN  (Answered(f) /\ ~BackendFailed(f.response)) =>
                 /\ Len(f.history) = Len(f.at_start.history) + 2
                 /\ SubSeq(f.history, 1, Len(f.at_start.history)) = f.at_start.history
                 /\ f.history[Len(f.history) - 1] =
                       [role |-> "user",
                        text |-> IF f.message.photo /\ strip(raw) = <<>>
                                 THEN GenericImageText ELSE strip(raw)]
                 /\ f.history[Len(f.history)] =
                       [role |-> "assistant", text |-> box[Len(box)].text]
                 /\ box[Len(box)].kind = "reply"
                 /\ Contains(short, box[Len(box)].text)
                 /\ SubSeq(box[Len(box)].text, 1, Len(strip(f.response.text)))
                       = strip(f.response.text)
    /\ \A u \in Users : \A k \in 1..Len(appended[u]) :
          appended[u][k].text \notin AlertMessages

C12_Witness ==
    \E i \in FrameIndexes :
        /\ Answered(tasks[i])
        /\ ~BackendFailed(tasks[i].response)
        /\ FirstWarning(tasks[i])
        /\ ~Contains(SHORT_DISCLAIMER[LanguageAtStart(tasks[i])], tasks[i].response.text)
        /\ tasks[i].at_start.history # <<>>

\* C13 (as the specification states it): get_message returns a non-empty
\* text for every supported language and key, and for an unsupported code
\* the text of the language settings.default_language names, whichever of
\* es, qu and shp that is.
C13_UnknownLanguageReadsDefault ==
    probe.fn = "get_message" =>
        /\ probe.result # <<>>
        /\ probe.language \in LanguageCode =>
              probe.result = MESSAGES[probe.language][probe.key]
        /\ probe.language \notin LanguageCode =>
              probe.result = MESSAGES[settings.default_language][probe.key]

\* C13 (amended): get_message returns a non-empty text for every supported
\* language and key, and for an unsupported code the Spanish text of the
\* key, whatever settings.default_language is.
C13_UnknownLanguageReadsSpanish ==
    probe.fn = "get_message" =>
        /\ probe.result # <<>>
        /\ probe.language \in LanguageCode =>
              probe.result = MESSAGES[probe.language][probe.key]
        /\ probe.language \notin LanguageCode =>
              probe.result = MESSAGES["es"][probe.key]

C13_Witness ==
    /\ probe.fn = "get_message"
    /\ probe.language \notin LanguageCode
    /\ settings.default_language = "shp"
    /\ probe.key = "welcome"
    /\ probe.result = <<"[es:welcome]">>

\* two texts that differ at most in the case of their letters
Folded(c) == IF c \in DOMAIN LowerOf THEN LowerOf[c] ELSE c

EqualIgnoringCase(a, b) ==
    /\ Len(a) = Len(b)
    /\ \A i \in 1..Len(a) : Folded(a[i]) = Folded(b[i])

OccursIgnoringCase(kw, text) ==
    \E i \in 1..(Len(text) + 1) :
        /\ i + Len(kw) - 1 <= Len(text)
        /\ EqualIgnoringCase(SubSeq(text, i, i + Len(kw) - 1), kw)

\* the entry of the alerts table the detector reads for a language: the
\* language's own, or else that of es
EntryLanguage(language) == IF language \in DOMAIN alerts_config THEN language ELSE "es"

\* the alerts table with the keywords of language l in the order p
Reordered(l, p) ==
    [alerts_config EXCEPT ![l].keywords = [k \in 1..Len(@) |-> @[p[k]]]]

\* C14: the detector returns the warning message configured for the
\* language it reads if and only if at least one of that language's
\* keywords occurs in the text as a case-insensitive substring, and no
\* match otherwise; the result is the same for every order of the keywords.
C14_DetectsIffSomeKeywordOccurs ==
    probe.fn = "_detect_alert_message" =>
        LET l == EntryLanguage(probe.language)
        IN  IF l \notin DOMAIN alerts_config
            THEN probe.result = None
            ELSE LET keywords == alerts_config[l].keywords
                     occurs == \E k \in 1..Len(keywords) :
                                   OccursIgnoringCase(keywords[k], probe.text)
                 IN  /\ occurs => probe.result = Some(alerts_config[l].message)
                     /\ ~occurs => probe.result = None
                     /\ \A p \in Permutations(1..Len(keywords)) :
                           detect_alert_message(Reordered(l, p), probe.text, probe.language)
                               = probe.result

C14_Witness ==
    /\ probe.fn = "_detect_alert_message"
    /\ alerts_config = AlertsPhrases
    /\ probe.language = "es"
    /\ probe.text = <<"bien", "Tengo", "FIEBRE">>
    /\ probe.result = Some(<<"[alerta:es]">>)

\* a language has FAQ items: faq.get(language) is neither None nor []
HasFaq(l) == l \in DOMAIN faq_data /\ faq_data[l] # <<>>

\* C15: when the alerts table has no entry for the language asked for, the
\* detector uses the keywords and the message of settings.default_language,
\* whichever of es, qu and shp that is; and when the FAQ has no items for
\* the language, the examples are those of settings.default_language.
C15_MissingEntryReadsDefault ==
    LET d == settings.default_language
    IN  /\ (/\ probe.fn = "_detect_alert_message"
             /\ probe.language \notin DOMAIN alerts_config
             /\ d \in DOMAIN alerts_config)
               => probe.result =
                     IF \E k \in 1..Len(alerts_config[d].keywords) :
                            OccursIgnoringCase(alerts_config[d].keywords[k], probe.text)
                     THEN Some(alerts_config[d].message)
                     ELSE None
        /\ (/\ probe.fn = "_build_faq_text"
             /\ ~HasFaq(probe.language)
             /\ HasFaq(d))
               => probe.result = build_faq_text(faq_data, d)

\* C16: when no alerts table was loaded, the detector finds nothing in any
\* message: no warning is ever sent, alert_shown stays unset for every
\* user, every prompt is built without the alarm-sign context, and each
\* message with text is still answered with one reply.
C16_NoTableNoWarning ==
    DOMAIN alerts_config = {} =>
        /\ \A u \in Users :
              /\ alerts_sent[u] = 0
              /\ ~user_data[u].alert_shown
              /\ \A k \in 1..Len(outbox[u]) : outbox[u][k].kind # "alert"
        /\ \A i \in FrameIndexes :
              LET f == tasks[i]
              IN  f.handler = "text" =>
                     /\ f.alert_message = None
                     /\ f.pc # "await_alert"
                     /\ f.called_backend => ~f.contents.system_prompt.alert_context
                     /\ (f.user_text # <<>> /\ ~IsLanguageLabel(f.user_text))
                           => f.called_backend
                     /\ Answered(f) => outbox[f.sid] = <<[kind |-> "reply", text |-> f.reply]>>

C16_Witness ==
    /\ DOMAIN alerts_config = {}
    /\ \E i \in FrameIndexes :
          /\ Answered(tasks[i])
          /\ ~BackendFailed(tasks[i].response)
          /\ tasks[i].user_text = RiskyText
          /\ tasks[i].at_start.history # <<>>

\* C17: a message whose text and caption are empty or only whitespace and
\* that has no photo is dropped: nothing is replied, Gemini is not called
\* and the user's data stay as they were.  A photo without caption is read
\* as the generic image text and goes the whole way: detection, the Gemini
\* call, the reply and the two turns in the history.
C17_NoTextDroppedPhotoAnswered ==
    \A i \in FrameIndexes :
        LET f == tasks[i]
            m == f.message
            no_text == strip(m.text) = <<>> /\ strip(m.caption) = <<>>
            box == outbox[f.sid]
            history == user_data[f.sid].history
        IN  f.handler = "text" =>
               /\ (no_text /\ ~m.photo) =>
                     /\ f.pc = "returned"
                     /\ ~f.called_backend
                     /\ box = <<>>
                     /\ user_data[f.sid] = f.at_start
               /\ (no_text /\ m.photo) =>
                     /\ f.user_text = <<"He enviado una imagen">>
                     /\ f.pc \in {"await_alert", "await_backend", "await_last"}
                     /\ f.alert_message
                           = detect_alert_message(alerts_config, f.user_text, LanguageAtStart(f))
                     /\ f.called_backend => f.contents.user_message = f.user_text
                     /\ f.pc = "await_last" =>
                           /\ f.called_backend
                           /\ box # <<>>
                           /\ box[Len(box)] = [kind |-> "reply", text |-> f.reply]
                           /\ Len(history) >= 2
                           /\ history[Len(history) - 1] =
                                 [role |-> "user", text |-> <<"He enviado una imagen">>]
                           /\ history[Len(history)] = [role |-> "assistant", text |-> f.reply]

\* a message without text is dropped after a photo without caption was answered
C17_Witness ==
    \E i \in FrameIndexes :
        LET f == tasks[i]
        IN  /\ f.pc = "returned"
            /\ ~f.message.photo
            /\ f.message.text = <<Blank, NewLine>>
            /\ f.at_start.language = "qu"
            /\ Len(f.at_start.history) = 2
            /\ f.at_start.history[1].text = <<"He enviado una imagen">>
            /\ user_data[f.sid] = f.at_start

\* an item of the FAQ with a question and an answer
WellFormed(item) == strip(item.question) # <<>> /\ strip(item.answer) # <<>>

\* C18: the examples are the first three well-formed items of the list read
\* for the language, in the order of the list: a list with three or more
\* well-formed items gives exactly three examples, also when one of its
\* first three items is malformed.
C18_FirstThreeWellFormedPairs ==
    LET l == IF HasFaq(probe.language) THEN probe.language ELSE "es"
    IN  (probe.fn = "_build_faq_text" /\ HasFaq(l)) =>
           LET well_formed == SelectSeq(faq_data[l], WellFormed)
               used == SubSeq(well_formed, 1,
                              IF Len(well_formed) < 3 THEN Len(well_formed) ELSE 3)
           IN  /\ used = <<>> => probe.result = None
               /\ used # <<>> =>
                     /\ probe.result.some
                     /\ Cardinality(Occurrences(<<"- Pregunta: ">>, probe.result.text))
                           = Len(used)
                     /\ probe.result = Some(JoinLines(FaqExamples(used)))

\* C19: the history part of a prompt holds exactly the last min(6, n) of
\* the n turns stored when the message began, oldest first, each under the
\* speaker of its role (user: the person, assistant: the bot), and the text
\* of the current message comes after it as the last part; with no stored
\* turn the prompt has no history part.
C19_PromptHistoryIsLastSix ==
    \A i \in FrameIndexes :
        LET f == tasks[i]
            h == f.at_start.history
            n == Len(h)
            k == IF n < 6 THEN n ELSE 6
            c == f.contents
        IN  (f.handler = "text" /\ f.called_backend) =>
               /\ c.history_block =
                     [j \in 1..k |->
                         [speaker |-> CASE h[n - k + j].role = "user" -> "Person"
                                        [] h[n - k + j].role = "assistant" -> "Piribot",
                          text |-> h[n - k + j].text]]
               /\ c.user_message = f.user_text
               /\ c.layout[Len(c.layout)] = "user_message"
               /\ (n = 0) = (\A j \in 1..Len(c.layout) : c.layout[j] # "history_block")
               /\ n > 0 => c.layout[Len(c.layout) - 2] = "history_block"

C19_Witness ==
    \E i \in FrameIndexes :
        LET f == tasks[i]
        IN  /\ f.handler = "text"
            /\ f.called_backend
            /\ Len(f.at_start.history) = 8
            /\ Len(f.contents.history_block) = 6
            /\ f.contents.history_block[1].speaker = "Person"
            /\ f.contents.history_block[1].text = f.at_start.history[3].text

\* the users with a handler call in flight in a list of frames
Acting(frames) == {frames[i].sid : i \in 1..Len(frames)}

\* what a call of handle_text_message for a user sends to Gemini and replies,
\* computed from that user's data alone
OwnContents(f) ==
    BuildContents(f.user_text, LanguageAtStart(f),
                  /\ Truthy(detect_alert_message(alerts_config, f.user_text, LanguageAtStart(f)))
                  /\ ~f.at_start.alert_shown,
                  f.at_start.history)

DependsOnOwnDataOnly ==
    \A i \in FrameIndexes :
        LET f == tasks[i]
        IN  /\ f.handler \in {"help", "language"} => f.lang = LanguageAtStart(f)
            /\ (f.handler = "text" /\ f.pc \in {"await_alert", "await_backend"})
                  => f.lang = LanguageAtStart(f)
            /\ (f.handler = "text" /\ f.called_backend) => f.contents = OwnContents(f)
            /\ Answered(f) => f.reply = ReplyOf(f.response, LanguageAtStart(f))

OthersUntouched ==
    \A b \in Users :
        (b \notin Acting(tasks) /\ b \notin Acting(tasks')) =>
            /\ user_data'[b] = user_data[b]
            /\ outbox'[b] = outbox[b]
            /\ alerts_sent'[b] = alerts_sent[b]
            /\ risk_prompts'[b] = risk_prompts[b]
            /\ appended'[b] = appended[b]

\* C20: users are independent: a step of a handler call for one user leaves
\* the language, history and alert_shown of every other user (and what was
\* sent to them) as they were, and the prompt and the reply of a call are
\* those computed from the sender's own data, whatever the others' are.
C20_UsersIndependent == []DependsOnOwnDataOnly /\ [][OthersUntouched]_vars

C20_Witness ==
    \E i \in FrameIndexes :
        LET f == tasks[i]
        IN  /\ f.sid = "u2"
            /\ Answered(f)
            /\ f.contents.system_prompt.alert_context
            /\ f.contents.history_block = <<>>
            /\ user_data["u1"].alert_shown
            /\ user_data["u1"].history # <<>>
            /\ user_data["u1"].language # user_data["u2"].language

\* the handler calls that resolve the user's language with _get_user_language
ResolvesLanguage(f) ==
    \/ f.handler \in {"help", "language"}
    \/ f.handler = "text" /\ f.pc \in {"await_alert", "await_backend"}
    \/ f.handler = "text" /\ f.called_backend

\* C21: the language resolved for a user is always one of es, qu, shp: it is
\* the process default as long as none is stored, else the stored one; the
\* process default is itself one of the three, namely the value of
\* PIRIBOT_DEFAULT_LANGUAGE in lower case if that is one of them and es if
\* it is anything else or unset; and a stored code that is none of the
\* three resolves to the default.
C21_ResolvedLanguageIsSupported ==
    /\ settings.default_language \in {"es", "qu", "shp"}
    /\ settings.default_language =
          CASE environ.some /\ environ.text = "es" -> "es"
            [] environ.some /\ environ.text \in {"qu", "QU"} -> "qu"
            [] environ.some /\ environ.text = "shp" -> "shp"
            [] OTHER -> "es"
    /\ \A u \in Users : user_data[u].language \in {"unset", "es", "qu", "shp"}
    /\ \A i \in FrameIndexes :
          LET f == tasks[i]
          IN  /\ f.lang \in {"es", "qu", "shp"}
              /\ ResolvesLanguage(f) =>
                    f.lang = IF f.at_start.language = "unset"
                             THEN settings.default_language
                             ELSE f.at_start.language
              /\ (f.handler = "text" /\ f.called_backend) => f.contents.language = f.lang
    /\ \A code \in {"fr", "ES", ""} :
          get_user_language([FreshUserData EXCEPT !.language = code])
              = settings.default_language

C21_Witness ==
    /\ environ = [some |-> TRUE, text |-> "fr"]
    /\ \E i \in FrameIndexes :
          /\ tasks[i].handler = "text"
          /\ tasks[i].called_backend
          /\ tasks[i].at_start.language = "unset"
          /\ tasks[i].at_start.history # <<>>
          /\ tasks[i].lang = "es"

\* how many of the replies sent for a user's latest update are final replies
FinalReplies(u) == Cardinality({k \in 1..Len(outbox[u]) : outbox[u][k].kind = "reply"})

OneOutcomePerMessage ==
    \A i \in FrameIndexes :
        LET f == tasks[i]
            box == outbox[f.sid]
            ended == f.pc \in {"await_last", "returned"}
        IN  f.handler = "text" =>
               /\ f.backend_calls <= 1
               /\ f.pc \in {"await_alert", "await_backend", "await_last", "returned"}
               /\ f.pc = "returned" => (box = <<>> /\ f.backend_calls = 0)
               /\ (f.pc # "returned" /\ IsLanguageLabel(f.user_text)) =>
                     /\ ended
                     /\ f.backend_calls = 0
                     /\ Len(box) = 1 /\ box[1].kind = "language_set"
               /\ (f.pc # "returned" /\ ~IsLanguageLabel(f.user_text)) =>
                     /\ f.user_text # <<>>
                     /\ ~ended => FinalReplies(f.sid) = 0
                     /\ ended =>
                           /\ f.backend_calls = 1
                           /\ FinalReplies(f.sid) = 1
                           /\ box[Len(box)].kind = "reply"
                           /\ box[Len(box)].text =
                                 IF f.response.raises \/ strip(f.response.text) = <<>>
                                 THEN <<"[dificultades técnicas]", "\n", "\n">>
                                          \o MESSAGES[f.lang]["disclaimer"]
                                 ELSE f.reply

MessagePending ==
    \E i \in FrameIndexes :
        tasks[i].handler = "text" /\ tasks[i].pc \in {"await_alert", "await_backend"}

MessageEnded ==
    \E i \in FrameIndexes :
        tasks[i].handler = "text" /\ tasks[i].pc \in {"await_last", "returned"}

\* C22: every message comes to an end: it is dropped, or its language
\* confirmation, its generated reply or its fallback reply is sent, and then
\* the handler returns.  Gemini is called at most once for a message and
\* never again after the call returned or failed, and a message with text
\* that is no language label gets exactly one final reply.
C22_EveryMessageEndsOnce ==
    /\ []OneOutcomePerMessage
    /\ MessagePending ~> MessageEnded
    /\ (tasks # <<>>) ~> (tasks = <<>>)

C22_Witness ==
    \E i \in FrameIndexes :
        LET f == tasks[i]
        IN  /\ f.handler = "text"
            /\ f.pc = "await_last"
            /\ f.backend_calls = 1
            /\ f.response.raises
            /\ Len(outbox[f.sid]) = 2
            /\ f.at_start.history # <<>>

\* C23: a stored history has even length, its turns are user, assistant,
\* user, assistant, ... from the first on, and no turn has an empty text;
\* what the cap of 10 cuts off the front is a whole number of
\* user+assistant pairs.
C23_HistoryAlternates ==
    \A u \in Users :
        LET h == user_data[u].history
        IN  /\ Len(h) % 2 = 0
            /\ \A k \in 1..Len(h) :
                  /\ h[k].role = (IF k % 2 = 1 THEN "user" ELSE "assistant")
                  /\ h[k].text # <<>>
                  /\ strip(h[k].text) # <<>>
            /\ Len(appended[u]) >= Len(h)
            /\ (Len(appended[u]) - Len(h)) % 2 = 0

C23_Witness ==
    \E u \in Users :
        /\ Len(appended[u]) = 12
        /\ Len(user_data[u].history) = 10
        /\ user_data[u].history[1] = appended[u][3]
        /\ user_data[u].history[1].role = "user"
        /\ \E k \in 1..10 : user_data[u].history[k].text[1] = "[dificultades técnicas]"

\* C24: /start stores the process default as the user's language, whatever
\* the user had chosen before, and leaves the user's history and alert_shown
\* as they were; /help and /language leave all of the user's data as they
\* were.
C24_CommandsFrame ==
    \A i \in FrameIndexes :
        LET f == tasks[i]
            ud == user_data[f.sid]
        IN  /\ f.handler = "start" =>
                  /\ ud.language = settings.default_language
                  /\ ud.history = f.at_start.history
                  /\ ud.alert_shown = f.at_start.alert_shown
                  /\ outbox[f.sid][1].text = MESSAGES[settings.default_language]["welcome"]
            /\ f.handler \in {"help", "language"} => ud = f.at_start

C24_Witness ==
    \E i \in FrameIndexes :
        LET f == tasks[i]
        IN  /\ f.handler = "start"
            /\ f.pc = "await_last"
            /\ f.at_start.language \notin {"unset", settings.default_language}
            /\ f.at_start.history # <<>>
            /\ f.at_start.alert_shown
            /\ user_data[f.sid].language = settings.default_language

\* C25: over all the messages of a user, at most one prompt is built with
\* the alarm-sign context, and it is the prompt of the message on which the
\* standalone warning was sent; alert_shown is set before Gemini is called,
\* so this holds also when that call fails: no later prompt of the user has
\* the context.
C25_AtMostOneRiskPrompt ==
    /\ \A u \in Users :
          /\ risk_prompts[u] <= 1
          /\ risk_prompts[u] <= alerts_sent[u]
          /\ risk_prompts[u] = 1 => user_data[u].alert_shown
    /\ \A i \in FrameIndexes :
          LET f == tasks[i]
              box == outbox[f.sid]
          IN  (f.handler = "text" /\ f.called_backend) =>
                 /\ f.contents.system_prompt.alert_context =>
                       /\ ~f.at_start.alert_shown
                       /\ box # <<>> /\ box[1].kind = "alert"
                       /\ risk_prompts[f.sid] = 1
                       /\ user_data[f.sid].alert_shown
                 /\ f.at_start.alert_shown => ~f.contents.system_prompt.alert_context
                 /\ (box # <<>> /\ box[1].kind = "alert")
                       => f.contents.system_prompt.alert_context

\* the warned message's call failed, and a later message with a keyword is
\* answered from a prompt without the context
C25_Witness ==
    \E i \in FrameIndexes :
        LET f == tasks[i]
        IN  /\ Answered(f)
            /\ f.user_text = RiskyText
            /\ ~f.contents.system_prompt.alert_context
            /\ risk_prompts[f.sid] = 1
            /\ Len(appended[f.sid]) >= 4
            /\ appended[f.sid][1].text = RiskyText
            /\ appended[f.sid][2].text[1] = "[dificultades técnicas]"

====
